---- MODULE Spec2Model ----
(***************************************************************************)
(* cirby: merge AI coding-agent configuration files into AGENTS.md and     *)
(* replace the originals by symlinks (internal/cirby/cirby.go, the         *)
(* deterministic merge variant).                                           *)
(*                                                                         *)
(* A path is the sequence of its components (<<".github",                  *)
(* "copilot-instructions.md">>), a text is the sequence of its tokens      *)
(* (single characters, or a fixed piece of text the program prints as a    *)
(* whole), the working tree is a function from paths to entries, and the   *)
(* version-control state is the committed snapshot of the tree.            *)
(***************************************************************************)
EXTENDS Integers, Sequences, FiniteSets, TLC

VARIABLES
    fs,     \* the working tree: path -> entry
    head,   \* the committed snapshot (meaningful when repo)
    repo,   \* whether the working directory is inside a git repository
    last    \* what the most recent Run invocation read, decided and did

vars == <<fs, head, repo, last>>

----------------------------------------------------------------------------
(* Bounds *)

\* Symlink chain length after which resolution gives up (the kernel's ELOOP).
MaxHops == 3

----------------------------------------------------------------------------
(* Paths *)

AGENTS    == <<"AGENTS.md">>
CLAUDE    == <<"CLAUDE.md">>
CODEX     == <<"CODEX.md">>
COPILOT   == <<".github", "copilot-instructions.md">>
MDC       == <<".cursor", "rules", "x.mdc">>
MDC2      == <<".cursor", "rules", "y.mdc">>
SUBCLAUDE == <<"sub", "CLAUDE.md">>
GHAGENTS  == <<".github", "AGENTS.md">>
MAINGO    == <<"main.go">>

\* The paths of the modelled tree, in the byte order of their slash-joined
\* names (the order sort.Slice gives with configs[i].Path < configs[j].Path).
PathOrder ==
    << MDC, MDC2, GHAGENTS, COPILOT, AGENTS, CLAUDE, CODEX, MAINGO, SUBCLAUDE >>

AllPaths == { PathOrder[i] : i \in 1..Len(PathOrder) }

Rank(p) == CHOOSE i \in 1..Len(PathOrder) : PathOrder[i] = p

\* The slash-joined name of a path, as one token of text.
PathName(p) ==
    CASE p = AGENTS    -> "AGENTS.md"
      [] p = CLAUDE    -> "CLAUDE.md"
      [] p = CODEX     -> "CODEX.md"
      [] p = COPILOT   -> ".github/copilot-instructions.md"
      [] p = MDC       -> ".cursor/rules/x.mdc"
      [] p = MDC2      -> ".cursor/rules/y.mdc"
      [] p = SUBCLAUDE -> "sub/CLAUDE.md"
      [] p = GHAGENTS  -> ".github/AGENTS.md"
      [] p = MAINGO    -> "main.go"
      [] OTHER         -> "?"

\* Component names ending in ".mdc".
MdcNames == { "x.mdc", "y.mdc" }

\* filepath.Base and filepath.Dir on a clean relative path.
Base(p) == p[Len(p)]
Dir(p)  == SubSeq(p, 1, Len(p) - 1)

----------------------------------------------------------------------------
(* Text *)

Whitespace == { " ", "\n", "\t" }

RECURSIVE TrimLeft(_)
TrimLeft(s) ==
    IF s = <<>> THEN <<>>
    ELSE IF Head(s) \in Whitespace THEN TrimLeft(Tail(s)) ELSE s

RECURSIVE TrimRight(_)
TrimRight(s) ==
    IF s = <<>> THEN <<>>
    ELSE IF s[Len(s)] \in Whitespace THEN TrimRight(SubSeq(s, 1, Len(s) - 1))
    ELSE s

\* strings.TrimSpace
TrimSpace(s) == TrimRight(TrimLeft(s))

\* strings.Contains
Contains(s, sub) ==
    \E i \in 1..(Len(s) - Len(sub) + 1) : SubSeq(s, i, i + Len(sub) - 1) = sub

\* strings.HasPrefix (used by the properties only)
HasPrefix(s, pre) == Len(pre) <= Len(s) /\ SubSeq(s, 1, Len(pre)) = pre

\* strings.Join(parts, "")
RECURSIVE Join(_)
Join(parts) == IF parts = <<>> THEN <<>> ELSE Head(parts) \o Join(Tail(parts))

\* hashContent: SHA-256 in hex, taken to be collision free.
hashContent(content) == <<"sha256">> \o content

----------------------------------------------------------------------------
(* The working tree *)

\* An entry: nothing, a regular file (Locked: one whose mode grants neither
\* read nor write), or a symlink with its relative target.
Absent     == [kind |-> "absent",  content |-> <<>>, target |-> <<>>, readable |-> FALSE]
File(c)    == [kind |-> "file",    content |-> c,    target |-> <<>>, readable |-> TRUE]
Locked(c)  == [kind |-> "file",    content |-> c,    target |-> <<>>, readable |-> FALSE]
Link(t)    == [kind |-> "symlink", content |-> <<>>, target |-> t,    readable |-> FALSE]

\* Lexical resolution of a relative link target against the link's directory:
\* ".." removes the last component; climbing above the root gives <<>>.
RECURSIVE Walk(_, _)
Walk(dir, t) ==
    IF t = <<>> THEN dir
    ELSE IF Head(t) = ".."
         THEN IF dir = <<>> THEN <<>> ELSE Walk(SubSeq(dir, 1, Len(dir) - 1), Tail(t))
         ELSE Walk(Append(dir, Head(t)), Tail(t))

LinkDest(p, t) == Walk(Dir(p), t)

\* The path a name finally denotes once symlinks are followed: a path of the
\* tree (possibly an absent one), or <<>> for a loop or a target outside it.
RECURSIVE Follow(_, _, _)
Follow(tree, p, hops) ==
    IF p \notin DOMAIN tree THEN <<>>
    ELSE IF tree[p].kind # "symlink" THEN p
    ELSE IF hops = 0 THEN <<>>
    ELSE Follow(tree, LinkDest(p, tree[p].target), hops - 1)

Resolve(tree, p) == Follow(tree, p, MaxHops)

\* os.Lstat succeeds
Exists(tree, p) == p \in DOMAIN tree /\ tree[p].kind # "absent"

\* os.ReadFile: [ok, content]
ReadFile(tree, p) ==
    LET r == Resolve(tree, p) IN
    IF r # <<>> /\ tree[r].kind = "file" /\ tree[r].readable
    THEN [ok |-> TRUE, content |-> tree[r].content]
    ELSE [ok |-> FALSE, content |-> <<>>]

\* os.WriteFile(p, c, 0644) opens with O_WRONLY|O_CREATE|O_TRUNC and follows
\* symlinks: [ok, tree].  An existing file keeps its mode, a new one is
\* readable; a file without permissions (Locked) cannot be opened.
WriteFile(tree, p, c) ==
    LET r == Resolve(tree, p) IN
    IF r = <<>> \/ (tree[r].kind = "file" /\ ~tree[r].readable)
    THEN [ok |-> FALSE, tree |-> tree]
    ELSE [ok |-> TRUE, tree |-> [tree EXCEPT ![r] = File(c)]]

----------------------------------------------------------------------------
(* Version control *)

\* A path is tracked when the committed snapshot holds an entry for it.
Tracked(hd, p) == hd[p].kind # "absent"

IsPrefix(d, p) == Len(d) <= Len(p) /\ SubSeq(p, 1, Len(d)) = d

\* A directory holds a tracked file.
DirTracked(hd, d) == \E q \in DOMAIN hd : Tracked(hd, q) /\ IsPrefix(d, q) /\ q # d

\* The name `git status --porcelain` prints for a path that differs from the
\* committed snapshot: the path itself, or, for an untracked file, the
\* outermost directory above it that holds no tracked file (printed "dir/").
StatusLine(hd, p) ==
    LET cand == { k \in 1..(Len(p) - 1) : ~DirTracked(hd, SubSeq(p, 1, k)) } IN
    IF ~Tracked(hd, p) /\ cand # {}
    THEN [path |-> SubSeq(p, 1, CHOOSE k \in cand : \A j \in cand : k <= j), dir |-> TRUE]
    ELSE [path |-> p, dir |-> FALSE]

\* The lines of `git status --porcelain`, reduced to the name after the
\* three-character status prefix.
GitStatusPorcelain(tree, hd) ==
    { StatusLine(hd, p) : p \in { q \in DOMAIN tree : tree[q] # hd[q] } }

agentFiles ==
    { "CLAUDE.md", "AGENTS.md", "CODEX.md", "GEMINI.md",
      ".cursorrules", ".windsurfrules", "copilot-instructions.md" }

\* strings.Contains(path, ".cursor/rules/")
HasCursorRules(p) ==
    \E i \in 1..(Len(p) - 2) : p[i] = ".cursor" /\ p[i + 1] = "rules"

\* isAgentConfigFile that accepts every status line.
isAgentConfigFileAny(line) == TRUE

\* isAgentConfigFile on a status line; a directory line ends in "/", so it
\* never has the suffix ".mdc".
isAgentConfigFile(line) ==
    \/ Base(line.path) \in agentFiles
    \/ ~line.dir /\ Base(line.path) \in MdcNames /\ HasCursorRules(line.path)

\* checkGitStatus: [err, files].  Outside a repository (git rev-parse
\* fails) it returns nil; when git status itself fails it returns that
\* error; otherwise it returns an error naming the recognised files.
checkGitStatusWith(tree, hd, isRepo, statusFails) ==
    LET uncommitted ==
            IF ~isRepo \/ statusFails THEN {}
            ELSE { l \in GitStatusPorcelain(tree, hd) : isAgentConfigFile(l) }
    IN [err |-> isRepo /\ (statusFails \/ uncommitted # {}), files |-> uncommitted]

\* checkGitStatus when git status runs.
checkGitStatus(tree, hd, isRepo) == checkGitStatusWith(tree, hd, isRepo, FALSE)

----------------------------------------------------------------------------
(* Scanning *)

agentPatterns ==
    << [Name |-> "Claude Code",     Patterns |-> << <<"CLAUDE.md">>, <<"**", "CLAUDE.md">> >>, Strategy |-> "symlink"],
       [Name |-> "Cursor (legacy)", Patterns |-> << <<".cursorrules">> >>,                      Strategy |-> "symlink"],
       [Name |-> "Cursor (rules)",  Patterns |-> << <<".cursor", "rules", "*.mdc">> >>,         Strategy |-> "merge"],
       [Name |-> "Windsurf",        Patterns |-> << <<".windsurfrules">> >>,                    Strategy |-> "symlink"],
       [Name |-> "GitHub Copilot",  Patterns |-> << <<".github", "copilot-instructions.md">> >>, Strategy |-> "symlink"],
       [Name |-> "Gemini CLI",      Patterns |-> << <<"GEMINI.md">> >>,                         Strategy |-> "symlink"],
       [Name |-> "Codex",           Patterns |-> << <<"CODEX.md">> >>,                          Strategy |-> "merge"],
       [Name |-> "OpenCode/AMP",    Patterns |-> << <<"AGENTS.md">> >>,                         Strategy |-> "keep"] >>

\* One pattern component against one name: "*" stands for any run of
\* non-separator characters, so "**" matches exactly one component.
CompMatch(pc, c) ==
    CASE pc = "**"    -> TRUE
      [] pc = "*.mdc" -> c \in MdcNames
      [] OTHER        -> pc = c

Match(pattern, p) ==
    Len(pattern) = Len(p) /\ \A i \in 1..Len(p) : CompMatch(pattern[i], p[i])

\* filepath.Glob: the existing paths (by Lstat) matching the pattern, in
\* lexical order.
RECURSIVE GlobFrom(_, _, _)
GlobFrom(tree, pattern, i) ==
    IF i > Len(PathOrder) THEN <<>>
    ELSE LET p == PathOrder[i] IN
         (IF Exists(tree, p) /\ Match(pattern, p) THEN <<p>> ELSE <<>>)
            \o GlobFrom(tree, pattern, i + 1)

Glob(tree, pattern) == GlobFrom(tree, pattern, 1)

\* isSymlinkToAgentsMD
isSymlinkToAgentsMD(tree, p) ==
    /\ Exists(tree, p)
    /\ tree[p].kind = "symlink"
    /\ (tree[p].target = <<"AGENTS.md">> \/ Base(tree[p].target) = "AGENTS.md")

\* ScanMatches without the skip of symlinks to AGENTS.md.
RECURSIVE ScanMatchesNoSkip(_, _, _)
ScanMatchesNoSkip(tree, agent, matches) ==
    IF matches = <<>> THEN <<>>
    ELSE LET m  == Head(matches)
             rd == ReadFile(tree, m)
         IN (IF ~rd.ok THEN <<>>
             ELSE << [Path |-> m, Agent |-> agent.Name,
                      Content |-> rd.content, Strategy |-> agent.Strategy] >>)
            \o ScanMatchesNoSkip(tree, agent, Tail(matches))

\* The records scanConfigs appends for the matches of one pattern.
RECURSIVE ScanMatches(_, _, _)
ScanMatches(tree, agent, matches) ==
    IF matches = <<>> THEN <<>>
    ELSE LET m  == Head(matches)
             rd == ReadFile(tree, m)
         IN (IF isSymlinkToAgentsMD(tree, m) \/ ~rd.ok THEN <<>>
             ELSE << [Path |-> m, Agent |-> agent.Name,
                      Content |-> rd.content, Strategy |-> agent.Strategy] >>)
            \o ScanMatches(tree, agent, Tail(matches))

RECURSIVE ScanPatterns(_, _, _)
ScanPatterns(tree, agent, patterns) ==
    IF patterns = <<>> THEN <<>>
    ELSE ScanMatches(tree, agent, Glob(tree, Head(patterns)))
            \o ScanPatterns(tree, agent, Tail(patterns))

RECURSIVE ScanAgents(_, _)
ScanAgents(tree, agents) ==
    IF agents = <<>> THEN <<>>
    ELSE ScanPatterns(tree, Head(agents), Head(agents).Patterns)
            \o ScanAgents(tree, Tail(agents))

\* sort.Slice(configs, Path[i] < Path[j])
RECURSIVE Insert(_, _)
Insert(c, sorted) ==
    IF sorted = <<>> THEN <<c>>
    ELSE IF Rank(c.Path) < Rank(Head(sorted).Path) THEN <<c>> \o sorted
    ELSE <<Head(sorted)>> \o Insert(c, Tail(sorted))

\* A scan that returns the records as they were appended.
SortByPathNone(cs) == cs

RECURSIVE SortByPath(_)
SortByPath(cs) == IF cs = <<>> THEN <<>> ELSE Insert(Head(cs), SortByPath(Tail(cs)))

\* scanConfigs
scanConfigs(tree) == SortByPath(ScanAgents(tree, agentPatterns))

\* filepath.Glob with its matches enumerated in a given order of the paths.
RECURSIVE GlobIn(_, _, _)
GlobIn(tree, pattern, order) ==
    IF order = <<>> THEN <<>>
    ELSE (IF Exists(tree, Head(order)) /\ Match(pattern, Head(order))
          THEN << Head(order) >> ELSE <<>>)
            \o GlobIn(tree, pattern, Tail(order))

RECURSIVE ScanPatternsIn(_, _, _, _)
ScanPatternsIn(tree, agent, patterns, order) ==
    IF patterns = <<>> THEN <<>>
    ELSE ScanMatches(tree, agent, GlobIn(tree, Head(patterns), order))
            \o ScanPatternsIn(tree, agent, Tail(patterns), order)

RECURSIVE ScanAgentsIn(_, _, _)
ScanAgentsIn(tree, agents, order) ==
    IF agents = <<>> THEN <<>>
    ELSE ScanPatternsIn(tree, Head(agents), Head(agents).Patterns, order)
            \o ScanAgentsIn(tree, Tail(agents), order)

\* scanConfigs with the registry and the glob matches enumerated in given
\* orders.
scanConfigsIn(tree, agents, order) == SortByPath(ScanAgentsIn(tree, agents, order))

----------------------------------------------------------------------------
(* Merging *)

\* fmt.Sprintf("\n\n---\n\n<!-- Merged from %s (%s) -->\n\n", cfg.Path, cfg.Agent)
Header(cfg) ==
    << "\n", "\n", "---", "\n", "\n",
       "<!-- Merged from ", PathName(cfg.Path), " (", cfg.Agent, ") -->", "\n", "\n" >>

\* fmt.Sprintf("# AGENTS.md\n\n%s", strings.TrimSpace(base.Content))
Seed(base) == << "# AGENTS.md", "\n", "\n" >> \o TrimSpace(base.Content)

\* The minimal AGENTS.md returned when nothing was assembled.
Template ==
    << "# AGENTS.md", "\n", "\n",
       "This file provides guidance to AI coding agents working with this project.", "\n", "\n",
       "## Project Overview", "\n", "\n",
       "<!-- Add your project description here -->", "\n", "\n",
       "## Build & Test", "\n", "\n",
       "<!-- Add build and test commands here -->", "\n", "\n",
       "## Code Style", "\n", "\n",
       "<!-- Add code style guidelines here -->", "\n" >>

\* SkipMerge that never skips.
SkipMergeNever(existing, cfg) == FALSE

\* The loop over toMerge: a file is skipped when existing is non-empty and
\* contains its trimmed content.
SkipMerge(existing, cfg) ==
    existing # <<>> /\ Contains(existing, TrimSpace(cfg.Content))

RECURSIVE MergeParts(_, _)
MergeParts(existing, toMerge) ==
    IF toMerge = <<>> THEN <<>>
    ELSE (IF SkipMerge(existing, Head(toMerge)) THEN <<>>
          ELSE << Header(Head(toMerge)) \o TrimSpace(Head(toMerge).Content) >>)
            \o MergeParts(existing, Tail(toMerge))

\* OtherParts that appends nothing after the seed.
OtherPartsNone(base, others) == <<>>

\* The loop over toSymlink[1:]: a file whose trimmed content equals the
\* base's is skipped.
RECURSIVE OtherParts(_, _)
OtherParts(base, others) ==
    IF others = <<>> THEN <<>>
    ELSE (IF TrimSpace(Head(others).Content) = TrimSpace(base.Content) THEN <<>>
          ELSE << Header(Head(others)) \o TrimSpace(Head(others).Content) >>)
            \o OtherParts(base, Tail(others))

SymlinkParts(existing, toSymlink) ==
    IF existing = <<>> /\ Len(toSymlink) > 0
    THEN << Seed(toSymlink[1]) >> \o OtherParts(toSymlink[1], Tail(toSymlink))
    ELSE <<>>

\* buildMergedContent without the final strings.TrimSpace.
buildMergedContentUntrimmed(existing, toMerge, toSymlink) ==
    LET parts == (IF existing # <<>> THEN << TrimSpace(existing) >> ELSE <<>>)
                    \o MergeParts(existing, toMerge)
                    \o SymlinkParts(existing, toSymlink)
    IN IF Len(parts) = 0 THEN Template
       ELSE Join(parts) \o << "\n" >>

\* buildMergedContent
buildMergedContent(existing, toMerge, toSymlink) ==
    LET parts == (IF existing # <<>> THEN << TrimSpace(existing) >> ELSE <<>>)
                    \o MergeParts(existing, toMerge)
                    \o SymlinkParts(existing, toSymlink)
    IN IF Len(parts) = 0 THEN Template
       ELSE TrimSpace(Join(parts)) \o << "\n" >>

----------------------------------------------------------------------------
(* Symlinks *)

\* filepath.Rel(dir, "AGENTS.md") for a clean relative dir: one ".." per
\* component of dir, then AGENTS.md.
Rel(dir) == [i \in 1..Len(dir) |-> ".."] \o << "AGENTS.md" >>

\* SymlinkTarget as if every path were at the project root.
SymlinkTargetBare(p) == << "AGENTS.md" >>

\* The target createSymlink computes for a path.
SymlinkTarget(p) == IF Dir(p) = <<>> THEN << "AGENTS.md" >> ELSE Rel(Dir(p))

\* The mutating system calls of a Run, in order; failAt = k makes the k-th of
\* them fail (0: none fails).  A step result is [ok, tree, k, log].
Op(name, p) == [op |-> name, path |-> p]

\* createSymlink: os.Remove (an absent file is no error), then os.Symlink.
createSymlink(tree, p, k, failAt, log) ==
    LET present == Exists(tree, p)
        kRm     == IF present THEN k + 1 ELSE k
        rmFails == present /\ failAt = k
        tree1   == IF present THEN [tree EXCEPT ![p] = Absent] ELSE tree
        log1    == IF present THEN Append(log, Op("remove", p)) ELSE log
    IN IF rmFails
       THEN [ok |-> FALSE, tree |-> tree, k |-> kRm, log |-> log]
       ELSE IF failAt = kRm
       THEN [ok |-> FALSE, tree |-> tree1, k |-> kRm + 1, log |-> log1]
       ELSE [ok |-> TRUE,
             tree |-> [tree1 EXCEPT ![p] = Link(SymlinkTarget(p))],
             k |-> kRm + 1,
             log |-> Append(log1, Op("symlink", p))]

\* The loop over toSymlink, stopping at the first error.
RECURSIVE LinkAll(_, _, _, _, _)
LinkAll(tree, toSymlink, k, failAt, log) ==
    IF toSymlink = <<>> THEN [ok |-> TRUE, tree |-> tree, k |-> k, log |-> log]
    ELSE LET r == createSymlink(tree, Head(toSymlink).Path, k, failAt, log) IN
         IF ~r.ok THEN r
         ELSE LinkAll(r.tree, Tail(toSymlink), r.k, failAt, r.log)

----------------------------------------------------------------------------
(* Run *)

Options == [DryRun : BOOLEAN, Force : BOOLEAN, Verbose : BOOLEAN]

RECURSIVE SelectMerge(_)
SelectMerge(configs) ==
    IF configs = <<>> THEN <<>>
    ELSE (IF Head(configs).Strategy = "merge" THEN << Head(configs) >> ELSE <<>>)
            \o SelectMerge(Tail(configs))

\* Only symlink if not already a symlink to AGENTS.md.
RECURSIVE SelectSymlink(_, _)
SelectSymlink(tree, configs) ==
    IF configs = <<>> THEN <<>>
    ELSE (IF Head(configs).Strategy = "symlink" /\ ~isSymlinkToAgentsMD(tree, Head(configs).Path)
          THEN << Head(configs) >> ELSE <<>>)
            \o SelectSymlink(tree, Tail(configs))

PathsOf(configs) == [i \in 1..Len(configs) |-> configs[i].Path]

\* What Run reads and computes between the gate and the mode switch: the
\* scan, the existing AGENTS.md, the split by strategy, the merged content.
Plan(tree) ==
    LET configs   == scanConfigs(tree)
        rd        == ReadFile(tree, AGENTS)
        existing  == IF rd.ok THEN rd.content ELSE <<>>
        toMerge   == SelectMerge(configs)
        toSymlink == SelectSymlink(tree, configs)
    IN [configs |-> configs, existing |-> existing,
        toMerge |-> toMerge, toSymlink |-> toSymlink,
        merged |-> buildMergedContent(existing, toMerge, toSymlink)]

\* Check if anything changed.
InSync(plan) ==
    /\ plan.existing # <<>>
    /\ hashContent(plan.existing) = hashContent(plan.merged)
    /\ Len(plan.toSymlink) = 0

\* Apply that writes AGENTS.md whether or not its content changes.
ApplyAlwaysWrites(tree, plan, failAt) ==
    LET w      == WriteFile(tree, AGENTS, plan.merged)
        wOk    == w.ok /\ failAt # 1
        log    == IF wOk THEN << Op("write", AGENTS) >> ELSE <<>>
        l      == LinkAll(w.tree, plan.toSymlink, 2, failAt, log)
    IN IF ~wOk THEN [tree |-> tree, outcome |-> "write_error", log |-> <<>>]
       ELSE IF ~l.ok THEN [tree |-> l.tree, outcome |-> "symlink_error", log |-> l.log]
       ELSE [tree |-> l.tree, outcome |-> "done", log |-> l.log]

\* The write of AGENTS.md and the symlink loop of apply mode.
Apply(tree, plan, failAt) ==
    LET writes == plan.merged # plan.existing
        w      == IF writes THEN WriteFile(tree, AGENTS, plan.merged)
                  ELSE [ok |-> TRUE, tree |-> tree]
        wOk    == w.ok /\ ~(writes /\ failAt = 1)
        k      == IF writes THEN 2 ELSE 1
        log    == IF writes /\ wOk THEN << Op("write", AGENTS) >> ELSE <<>>
        l      == LinkAll(w.tree, plan.toSymlink, k, failAt, log)
    IN IF ~wOk THEN [tree |-> tree, outcome |-> "write_error", log |-> <<>>]
       ELSE IF ~l.ok THEN [tree |-> l.tree, outcome |-> "symlink_error", log |-> l.log]
       ELSE [tree |-> l.tree, outcome |-> "done", log |-> l.log]

\* RunWith without the dry-run return.
RunWithDryRunApplies(gate, plan, tree, opts, failAt) ==
    IF ~opts.Force /\ gate.err
    THEN [tree |-> tree, outcome |-> "gate_error", log |-> <<>>]
    ELSE IF Len(plan.configs) = 0
    THEN [tree |-> tree, outcome |-> "none_found", log |-> <<>>]
    ELSE IF InSync(plan)
    THEN [tree |-> tree, outcome |-> "in_sync", log |-> <<>>]
    ELSE Apply(tree, plan, failAt)

\* Run(opts) from the gate's verdict and the plan: the tree it leaves, how
\* it returned, and the mutating calls it made.
RunWith(gate, plan, tree, opts, failAt) ==
    IF ~opts.Force /\ gate.err
    THEN [tree |-> tree, outcome |-> "gate_error", log |-> <<>>]
    ELSE IF Len(plan.configs) = 0
    THEN [tree |-> tree, outcome |-> "none_found", log |-> <<>>]
    ELSE IF InSync(plan)
    THEN [tree |-> tree, outcome |-> "in_sync", log |-> <<>>]
    ELSE IF opts.DryRun
    THEN [tree |-> tree, outcome |-> "dry_run", log |-> <<>>]
    ELSE Apply(tree, plan, failAt)

RunResult(tree, hd, isRepo, opts, failAt) ==
    RunWith(checkGitStatus(tree, hd, isRepo), Plan(tree), tree, opts, failAt)

\* Outcomes with which Run returns nil.
Success == { "none_found", "in_sync", "dry_run", "done" }

\* Outcomes in which Run got as far as building the merged content.
Planned == { "in_sync", "dry_run", "done", "write_error", "symlink_error" }

NoOptions == [DryRun |-> FALSE, Force |-> FALSE]

NoRun ==
    [opts |-> NoOptions, failAt |-> 0, pre |-> <<>>, outcome |-> "none",
     configs |-> <<>>, toMerge |-> <<>>, toSymlink |-> <<>>,
     existing |-> <<>>, merged |-> <<>>, blocked |-> {}, log |-> <<>>,
     prevApplied |-> FALSE]

\* The record of an invocation kept in `last`.
Record(opts, failAt, gate, plan, r) ==
    [opts |-> [DryRun |-> opts.DryRun, Force |-> opts.Force],
     failAt |-> failAt, pre |-> fs, outcome |-> r.outcome,
     configs   |-> IF r.outcome = "gate_error" THEN <<>> ELSE PathsOf(plan.configs),
     toMerge   |-> IF r.outcome \in Planned THEN PathsOf(plan.toMerge) ELSE <<>>,
     toSymlink |-> IF r.outcome \in Planned THEN PathsOf(plan.toSymlink) ELSE <<>>,
     existing  |-> IF r.outcome \in Planned THEN plan.existing ELSE <<>>,
     merged    |-> IF r.outcome \in Planned THEN plan.merged ELSE <<>>,
     blocked   |-> IF r.outcome = "gate_error" THEN gate.files ELSE {},
     log |-> r.log,
     prevApplied |-> last.outcome \in Success /\ ~last.opts.DryRun]

\* One invocation of Run in which no system call fails for a reason outside
\* the tree.  Verbose only adds output, which is not part of the state.
Run(opts, gate, plan) ==
    \E r \in { RunWith(gate, plan, fs, opts, 0) } :
        /\ fs' = r.tree
        /\ last' = Record(opts, 0, gate, plan, r)
        /\ UNCHANGED <<head, repo>>

\* One invocation of Run in which the failAt-th mutating system call (the
\* write of AGENTS.md, a removal, a symlink creation) fails.
RunFailing(opts, gate, plan) ==
    \E r0 \in { RunWith(gate, plan, fs, opts, 0) } :
    \E failAt \in 1..Len(r0.log) :
    \E r \in { RunWith(gate, plan, fs, opts, failAt) } :
        /\ fs' = r.tree
        /\ last' = Record(opts, failAt, gate, plan, r)
        /\ UNCHANGED <<head, repo>>

----------------------------------------------------------------------------
(* Starting trees *)

A  == << "a" >>
B  == << "b" >>
AN == << "a", "\n" >>
AB == << "a", " ", "b" >>
NAN == << "\n", "a", "\n" >>

AgentsStart   == { Absent, File(<<>>), File(AN), File(NAN), Link(CLAUDE), Link(CODEX), Locked(AN) }
ClaudeStart   == { Absent, File(AN), File(B), Link(AGENTS), Locked(A) }
CopilotStart  == { Absent, File(A), Link(<<"AGENTS.md">>) }
CodexStart    == { Absent, File(A), File(AB) }
MdcStart      == { Absent, File(AB) }
SubStart      == { Absent, File(B) }

StartTrees ==
    { [p \in AllPaths |->
          CASE p = AGENTS    -> a
            [] p = CLAUDE    -> c
            [] p = COPILOT   -> g
            [] p = CODEX     -> x
            [] p = MDC       -> m
            [] p = SUBCLAUDE -> s
            [] p = MAINGO    -> File(A)
            [] OTHER         -> Absent] :
        a \in AgentsStart, c \in ClaudeStart, g \in CopilotStart,
        x \in CodexStart, m \in MdcStart, s \in SubStart }

\* The committed version of a path that has uncommitted changes: untracked
\* when the path exists in the tree, an older file otherwise or as well.
Old == File(<< "o" >>)

Snapshots(tree) ==
    { tree, [tree EXCEPT ![CLAUDE] = Old], [tree EXCEPT ![MAINGO] = Old],
      [tree EXCEPT ![COPILOT] = Absent] }

Init ==
    /\ fs \in StartTrees
    /\ repo \in BOOLEAN
    /\ head \in (IF repo THEN Snapshots(fs) ELSE { fs })
    /\ last = NoRun

Next ==
    \E gate \in { checkGitStatus(fs, head, repo) } :
    \E plan \in { Plan(fs) } :
    \E opts \in Options : Run(opts, gate, plan)

Spec == Init /\ [][Next]_vars

----------------------------------------------------------------------------
(* createSymlink on its own *)

\* The deepest directory nesting of the paths createSymlink is applied to.
MaxDepth == 3

\* CLAUDE.md below d directories.
Nested(d) == [i \in 1..d |-> "sub"] \o << "CLAUDE.md" >>

LinkPaths == { Nested(d) : d \in 0..MaxDepth }

\* What os.Remove may find at the path: nothing, a file, a stale symlink.
LinkStart == { Absent, File(A), Link(<< "old.md" >>) }

InitSymlink ==
    /\ fs \in { [p \in LinkPaths \cup { AGENTS } |-> IF p = AGENTS THEN File(AN) ELSE e[p]] :
                    e \in [LinkPaths -> LinkStart] }
    /\ repo = FALSE
    /\ head = fs
    /\ last = NoRun

\* One call of createSymlink; failAt = 1, 2 makes its first or second system
\* call fail.
Symlink(p, failAt) ==
    \E r \in { createSymlink(fs, p, 1, failAt, <<>>) } :
        /\ fs' = r.tree
        /\ last' = [NoRun EXCEPT !.pre = fs, !.failAt = failAt, !.log = r.log,
                                  !.outcome = IF r.ok THEN "done" ELSE "symlink_error"]
        /\ UNCHANGED <<head, repo>>

NextSymlink == \E p \in LinkPaths : \E failAt \in 0..2 : Symlink(p, failAt)

SpecSymlink == InitSymlink /\ [][NextSymlink]_vars

----------------------------------------------------------------------------
(* The agent-delegation variant (v0.2.0): the merge is left to an external
   coding agent, then every processed file is replaced by a symlink. *)

agentPatterns_v2 ==
    << [Name |-> "Claude Code",     Patterns |-> << <<"CLAUDE.md">> >>],
       [Name |-> "Cursor (legacy)", Patterns |-> << <<".cursorrules">> >>],
       [Name |-> "Cursor (rules)",  Patterns |-> << <<".cursor", "rules", "*.mdc">> >>],
       [Name |-> "Windsurf",        Patterns |-> << <<".windsurfrules">> >>],
       [Name |-> "GitHub Copilot",  Patterns |-> << <<".github", "copilot-instructions.md">> >>],
       [Name |-> "Gemini CLI",      Patterns |-> << <<"GEMINI.md">> >>],
       [Name |-> "Codex",           Patterns |-> << <<"CODEX.md">> >>] >>

\* os.Stat: "ok", "not_exist" (no entry at the end of the symlink chain), or
\* "error" (a symlink loop).
Stat(tree, p) ==
    LET r == Resolve(tree, p) IN
    IF r = <<>> THEN "error"
    ELSE IF tree[r].kind = "absent" THEN "not_exist"
    ELSE "ok"

\* The records this variant's scanConfigs appends for the matches of one
\* pattern: every match that can be read, symlinks to AGENTS.md included.
RECURSIVE ScanMatches_v2(_, _, _)
ScanMatches_v2(tree, agent, matches) ==
    IF matches = <<>> THEN <<>>
    ELSE LET m  == Head(matches)
             rd == ReadFile(tree, m)
         IN (IF ~rd.ok THEN <<>>
             ELSE << [Path |-> m, Agent |-> agent.Name, Content |-> rd.content] >>)
            \o ScanMatches_v2(tree, agent, Tail(matches))

RECURSIVE ScanPatterns_v2(_, _, _)
ScanPatterns_v2(tree, agent, patterns) ==
    IF patterns = <<>> THEN <<>>
    ELSE ScanMatches_v2(tree, agent, Glob(tree, Head(patterns)))
            \o ScanPatterns_v2(tree, agent, Tail(patterns))

RECURSIVE ScanAgents_v2(_, _)
ScanAgents_v2(tree, agents) ==
    IF agents = <<>> THEN <<>>
    ELSE ScanPatterns_v2(tree, Head(agents), Head(agents).Patterns)
            \o ScanAgents_v2(tree, Tail(agents))

\* scanConfigs of this variant: AGENTS.md is added when os.Stat succeeds.
scanConfigs_v2(tree) ==
    SortByPath(ScanAgents_v2(tree, agentPatterns_v2)
                 \o (IF Stat(tree, AGENTS) = "ok"
                     THEN << [Path |-> AGENTS, Agent |-> "AGENTS.md", Content |-> <<>>] >>
                     ELSE <<>>))

\* Filter out files that are already symlinks to AGENTS.md, and AGENTS.md.
RECURSIVE ToProcess(_, _)
ToProcess(tree, configs) ==
    IF configs = <<>> THEN <<>>
    ELSE (IF isSymlinkToAgentsMD(tree, Head(configs).Path) \/ Head(configs).Path = AGENTS
          THEN <<>> ELSE << Head(configs) >>)
            \o ToProcess(tree, Tail(configs))

\* The names of supportedAgents, and what --agent can be given.
supportedAgents == { "claude", "opencode", "gemini", "cursor", "codex", "aider" }

AgentFlags == { "", "claude", "aider", "vim" }

\* selectAgent: whether it returns an agent, given the commands found in
\* PATH.  With no --agent flag any installed agent will do.
selectAgent(flag, installed) ==
    IF flag # "" THEN flag \in supportedAgents /\ flag \in installed
    ELSE installed \cap supportedAgents # {}

\* What the agent wrote when it wrote AGENTS.md.
AgentText == << "m", "\n" >>

\* The trees the external agent can leave behind: untouched, AGENTS.md
\* written (through a symlink if it is one), AGENTS.md removed.
AgentEffects(tree) ==
    { tree, WriteFile(tree, AGENTS, AgentText).tree, [tree EXCEPT ![AGENTS] = Absent] }

\* What this variant's Run computes before it selects an agent.
Plan_v2(tree) ==
    LET configs == scanConfigs_v2(tree)
    IN [configs |-> configs, toProcess |-> ToProcess(tree, configs)]

\* RunWith_v2 without the check that AGENTS.md exists after the agent.
RunWith_v2Unverified(gate, plan, tree, opts, agentFound, exitOk, after, failAt) ==
    IF ~opts.Force /\ gate.err
    THEN [tree |-> tree, mid |-> tree, outcome |-> "gate_error", log |-> <<>>]
    ELSE IF Len(plan.configs) = 0
    THEN [tree |-> tree, mid |-> tree, outcome |-> "none_found", log |-> <<>>]
    ELSE IF Len(plan.toProcess) = 0
    THEN [tree |-> tree, mid |-> tree, outcome |-> "in_sync", log |-> <<>>]
    ELSE IF ~agentFound
    THEN [tree |-> tree, mid |-> tree, outcome |-> "no_agent", log |-> <<>>]
    ELSE IF opts.DryRun
    THEN [tree |-> tree, mid |-> tree, outcome |-> "dry_run", log |-> <<>>]
    ELSE IF ~exitOk
    THEN [tree |-> after, mid |-> after, outcome |-> "agent_error", log |-> <<>>]
    ELSE LET l == LinkAll(after, plan.toProcess, 1, failAt, <<>>) IN
         [tree |-> l.tree, mid |-> after,
          outcome |-> IF l.ok THEN "done" ELSE "symlink_error", log |-> l.log]

\* Run of this variant from the gate's verdict and the plan: the tree it
\* leaves, the tree the agent left (mid), how it returned, and its own
\* mutating calls.
RunWith_v2(gate, plan, tree, opts, agentFound, exitOk, after, failAt) ==
    IF ~opts.Force /\ gate.err
    THEN [tree |-> tree, mid |-> tree, outcome |-> "gate_error", log |-> <<>>]
    ELSE IF Len(plan.configs) = 0
    THEN [tree |-> tree, mid |-> tree, outcome |-> "none_found", log |-> <<>>]
    ELSE IF Len(plan.toProcess) = 0
    THEN [tree |-> tree, mid |-> tree, outcome |-> "in_sync", log |-> <<>>]
    ELSE IF ~agentFound
    THEN [tree |-> tree, mid |-> tree, outcome |-> "no_agent", log |-> <<>>]
    ELSE IF opts.DryRun
    THEN [tree |-> tree, mid |-> tree, outcome |-> "dry_run", log |-> <<>>]
    ELSE IF ~exitOk
    THEN [tree |-> after, mid |-> after, outcome |-> "agent_error", log |-> <<>>]
    ELSE IF Stat(after, AGENTS) = "not_exist"
    THEN [tree |-> after, mid |-> after, outcome |-> "not_created", log |-> <<>>]
    ELSE LET l == LinkAll(after, plan.toProcess, 1, failAt, <<>>) IN
         [tree |-> l.tree, mid |-> after,
          outcome |-> IF l.ok THEN "done" ELSE "symlink_error", log |-> l.log]

NoRun_v2 ==
    [opts |-> NoOptions, failAt |-> 0, pre |-> <<>>, mid |-> <<>>, outcome |-> "none",
     configs |-> <<>>, toProcess |-> <<>>, log |-> <<>>]

\* One invocation of this variant's Run, the agent's behaviour and a
\* failing system call of the symlink loop being inputs.
Run_v2(opts, gate, plan, agentFound, exitOk, after, failAt) ==
    \E r \in { RunWith_v2(gate, plan, fs, opts, agentFound, exitOk, after, failAt) } :
        /\ fs' = r.tree
        /\ last' = [opts |-> [DryRun |-> opts.DryRun, Force |-> opts.Force],
                    failAt |-> failAt, pre |-> fs, mid |-> r.mid, outcome |-> r.outcome,
                    configs |-> PathsOf(plan.configs), toProcess |-> PathsOf(plan.toProcess),
                    log |-> r.log]
        /\ UNCHANGED <<head, repo>>

\* Starting trees of this variant; they include AGENTS.md as a symlink to
\* CLAUDE.md and the loop AGENTS.md <-> CLAUDE.md.
StartTrees_v2 ==
    { [p \in AllPaths |->
          CASE p = AGENTS    -> a
            [] p = CLAUDE    -> c
            [] p = COPILOT   -> g
            [] p = CODEX     -> x
            [] p = MAINGO    -> File(A)
            [] OTHER         -> Absent] :
        a \in { Absent, File(AN), Link(CLAUDE) },
        c \in { Absent, File(AN), Link(AGENTS), Locked(A) },
        g \in { Absent, File(A) },
        x \in { Absent, File(A) } }

Init_v2 ==
    /\ fs \in StartTrees_v2
    /\ repo \in BOOLEAN
    /\ head \in (IF repo THEN { fs, [fs EXCEPT ![CLAUDE] = Old] } ELSE { fs })
    /\ last = NoRun_v2

\* Whether selectAgent finds an agent, over the flags and installed commands.
AgentFound ==
    { selectAgent(flag, installed) :
        flag \in AgentFlags, installed \in SUBSET { "claude", "aider" } }

\* Run gets as far as executing the agent.
ReachesAgent(gate, plan, opts, agentFound) ==
    /\ opts.Force \/ ~gate.err
    /\ Len(plan.toProcess) # 0
    /\ agentFound
    /\ ~opts.DryRun

\* The agent's exit status and effect and the failing system call are
\* inputs only of the runs that execute the agent.
Next_v2 ==
    \E gate \in { checkGitStatus(fs, head, repo) } :
    \E plan \in { Plan_v2(fs) } :
    \E opts \in Options : \E agentFound \in AgentFound :
        IF ReachesAgent(gate, plan, opts, agentFound)
        THEN \E exitOk \in BOOLEAN : \E after \in AgentEffects(fs) : \E failAt \in 0..2 :
                Run_v2(opts, gate, plan, agentFound, exitOk, after, failAt)
        ELSE Run_v2(opts, gate, plan, agentFound, TRUE, fs, 0)

Spec_v2 == Init_v2 /\ [][Next_v2]_vars

----------------------------------------------------------------------------
(* checkGitStatus on its own *)

NoGate ==
    [outcome |-> "none", pre |-> <<>>, statusFails |-> FALSE, blocked |-> {}, log |-> <<>>]

InitGate ==
    /\ fs \in StartTrees
    /\ repo \in BOOLEAN
    /\ head \in (IF repo THEN Snapshots(fs) ELSE { fs })
    /\ last = NoGate

\* One call of checkGitStatus; it only runs git and reads its output.
Gate(statusFails) ==
    \E g \in { checkGitStatusWith(fs, head, repo, statusFails) } :
        /\ last' = [outcome |-> IF g.err THEN "gate_error" ELSE "gate_ok",
                    pre |-> fs, statusFails |-> statusFails, blocked |-> g.files,
                    log |-> <<>>]
        /\ UNCHANGED <<fs, head, repo>>

NextGate == \E statusFails \in BOOLEAN : Gate(statusFails)

SpecGate == InitGate /\ [][NextGate]_vars

----------------------------------------------------------------------------
(* scanConfigs on its own *)

RECURSIVE Reverse(_)
Reverse(s) == IF s = <<>> THEN <<>> ELSE Reverse(Tail(s)) \o << Head(s) >>

Rotate(s, k) == [i \in 1..Len(s) |-> s[((i + k - 1) % Len(s)) + 1]]

\* Orders in which the registry can be walked: its rotations and their
\* reversals; the order of the source is Rotate(agentPatterns, 0).
RegistryOrders ==
    { Rotate(agentPatterns, k) : k \in 0..(Len(agentPatterns) - 1) }
        \cup { Reverse(Rotate(agentPatterns, k)) : k \in 0..(Len(agentPatterns) - 1) }

\* Orders in which a glob can list its matches.
GlobOrders == { PathOrder, Reverse(PathOrder) }

ScanTrees ==
    { [p \in AllPaths |->
          CASE p = AGENTS    -> a
            [] p = CLAUDE    -> c
            [] p = COPILOT   -> g
            [] p = CODEX     -> x
            [] p = MDC       -> m
            [] p = MDC2      -> n
            [] p = SUBCLAUDE -> s
            [] OTHER         -> Absent] :
        a \in { Absent, File(AN) }, c \in { Absent, File(AN), Link(AGENTS) },
        g \in { Absent, File(A) }, x \in { Absent, File(A) },
        m \in { Absent, File(AB) }, n \in { Absent, File(B) },
        s \in { Absent, File(B) } }

NoScan ==
    [outcome |-> "none", pre |-> <<>>, agents |-> <<>>, order |-> <<>>,
     configs |-> <<>>, merged |-> <<>>, log |-> <<>>]

InitScan ==
    /\ fs \in ScanTrees
    /\ repo = FALSE
    /\ head = fs
    /\ last = NoScan

\* One scan with the registry and the globs enumerated in the given orders,
\* followed by the split and the merge Run derives from its result.
Scan(agents, order) ==
    \E configs \in { scanConfigsIn(fs, agents, order) } :
        LET rd       == ReadFile(fs, AGENTS)
            existing == IF rd.ok THEN rd.content ELSE <<>>
        IN /\ last' = [outcome |-> "scanned", pre |-> fs, agents |-> agents,
                       order |-> order, configs |-> configs,
                       merged |-> buildMergedContent(existing, SelectMerge(configs),
                                                     SelectSymlink(fs, configs)),
                       log |-> <<>>]
           /\ UNCHANGED <<fs, head, repo>>

NextScan == \E agents \in RegistryOrders : \E order \in GlobOrders : Scan(agents, order)

SpecScan == InitScan /\ [][NextScan]_vars

----------------------------------------------------------------------------
(* Run with failing system calls *)

FaultTrees ==
    { [p \in AllPaths |->
          CASE p = AGENTS    -> a
            [] p = CLAUDE    -> c
            [] p = COPILOT   -> g
            [] p = CODEX     -> x
            [] p = SUBCLAUDE -> s
            [] OTHER         -> Absent] :
        a \in { Absent, File(AN), Link(CLAUDE), Locked(AN) },
        c \in { Absent, File(AN), File(B) },
        g \in { Absent, File(A) }, x \in { Absent, File(AB) },
        s \in { Absent, File(B) } }

InitFaults ==
    /\ fs \in FaultTrees
    /\ repo = FALSE
    /\ head = fs
    /\ last = NoRun

NextFaults ==
    \E gate \in { checkGitStatus(fs, head, repo) } :
    \E plan \in { Plan(fs) } :
    \E opts \in Options :
        \/ Run(opts, gate, plan)
        \/ RunFailing(opts, gate, plan)

SpecFaults == InitFaults /\ [][NextFaults]_vars

----------------------------------------------------------------------------
(* buildMergedContent on its own *)

\* The record scanConfigs makes for a path with a given content.
Config(p, agent, content) ==
    [Path |-> p, Agent |-> agent.Name, Content |-> content, Strategy |-> agent.Strategy]

\* The records of the paths that have a content, in the order given; "-"
\* stands for a path that was not discovered.
RECURSIVE Configs(_, _, _)
Configs(paths, agents, contents) ==
    IF paths = <<>> THEN <<>>
    ELSE (IF Head(contents) = "-" THEN <<>>
          ELSE << Config(Head(paths), agentPatterns[Head(agents)], Head(contents)) >>)
            \o Configs(Tail(paths), Tail(agents), Tail(contents))

ExistingInputs == { <<>>, << " " >>, << "\n" >>, AN, NAN, AB }

MergeInputs ==
    { Configs(<< MDC, MDC2, CODEX >>, << 3, 3, 7 >>, << m, n, x >>) :
        m \in { "-", A, AB }, n \in { "-", NAN }, x \in { "-", <<>>, AN, AB } }

SymlinkInputs ==
    { Configs(<< COPILOT, CLAUDE >>, << 5, 1 >>, << g, c >>) :
        g \in { "-", A, NAN }, c \in { "-", AN, B } }

NoBuild ==
    [outcome |-> "none", existing |-> <<>>, toMerge |-> <<>>, toSymlink |-> <<>>,
     merged |-> <<>>, log |-> <<>>]

InitMerge ==
    /\ fs = [p \in AllPaths |-> Absent]
    /\ head = fs
    /\ repo = FALSE
    /\ \E e \in ExistingInputs : \E m \in MergeInputs : \E l \in SymlinkInputs :
          last = [NoBuild EXCEPT !.existing = e, !.toMerge = m, !.toSymlink = l]

\* One call of buildMergedContent on the inputs drawn.
Build ==
    /\ last' = [last EXCEPT !.outcome = "built",
                            !.merged = buildMergedContent(last.existing, last.toMerge,
                                                          last.toSymlink)]
    /\ UNCHANGED <<fs, head, repo>>

NextMerge == Build

SpecMerge == InitMerge /\ [][NextMerge]_vars

----------------------------------------------------------------------------
(* Run in trees with symlinks named AGENTS.md *)

SyncTrees ==
    { [p \in AllPaths |->
          CASE p = AGENTS    -> a
            [] p = GHAGENTS  -> h
            [] p = CLAUDE    -> c
            [] p = COPILOT   -> g
            [] p = SUBCLAUDE -> s
            [] OTHER         -> Absent] :
        a \in { Absent, File(AN) }, h \in { Absent, File(B) },
        c \in { Absent, File(AN), Link(AGENTS), Link(GHAGENTS) },
        g \in { Absent, File(A), Link(<< "AGENTS.md" >>), Link(<< "..", "AGENTS.md" >>) },
        s \in { Absent, File(B), Link(<< "AGENTS.md" >>), Link(<< "..", "AGENTS.md" >>) } }

InitSync ==
    /\ fs \in SyncTrees
    /\ repo = FALSE
    /\ head = fs
    /\ last = NoRun

NextSync ==
    \E gate \in { checkGitStatus(fs, head, repo) } :
    \E plan \in { Plan(fs) } :
    \E opts \in Options : Run(opts, gate, plan)

SpecSync == InitSync /\ [][NextSync]_vars

----------------------------------------------------------------------------
(* Properties *)

\* A Run has been invoked; `last` describes it and last.pre is the tree it
\* started from.
Ran == last.outcome # "none"

\* The run got past the gate and the scan and built the merged content.
RanPlanned == last.outcome \in Planned

\* The mutating calls of the last run, as a set.
Did(name, p) == \E i \in 1..Len(last.log) : last.log[i] = Op(name, p)

InSeq(x, seq) == \E i \in 1..Len(seq) : seq[i] = x

\* The paths a registry entry of the given strategy can match.
StrategyPaths(strategy) ==
    { p \in AllPaths :
        \E i \in 1..Len(agentPatterns) :
            /\ agentPatterns[i].Strategy = strategy
            /\ \E j \in 1..Len(agentPatterns[i].Patterns) :
                  Match(agentPatterns[i].Patterns[j], p) }

\* A path the safety gate recognises as an agent configuration file.
IsConfigPath(p) == isAgentConfigFile([path |-> p, dir |-> FALSE])

\* The content AGENTS.md holds in a tree, when it can be read.
Canonical(tree) == ReadFile(tree, AGENTS)

MergeMarker == "<!-- Merged from "

\* strings.Count for a non-empty sub, overlapping occurrences included.
Occurrences(s, sub) ==
    Cardinality({ i \in 1..(Len(s) - Len(sub) + 1) : SubSeq(s, i, i + Len(sub) - 1) = sub })

\* The start of the provenance header of the section appended for a path.
HeaderOf(p) == << MergeMarker, PathName(p) >>

\* A merge-strategy file of the last run whose trimmed content the existing,
\* non-empty AGENTS.md already contained.
AlreadyIn(p) ==
    /\ RanPlanned
    /\ InSeq(p, last.toMerge)
    /\ last.existing # <<>>
    /\ Contains(last.existing, TrimSpace(ReadFile(last.pre, p).content))

\* No path the gate recognises differs from its committed state.
Committed(tree) == \A p \in AllPaths : IsConfigPath(p) => tree[p] = head[p]

(* C1: a Run with DryRun set, whatever Force and Verbose are and whatever
   it would have merged or symlinked, makes no mutating call and leaves the
   tree exactly as it found it. *)
C1_DryRunPure ==
    (Ran /\ last.opts.DryRun) => (fs = last.pre /\ last.log = <<>>)

C1_Witness ==
    /\ last.outcome = "dry_run"
    /\ last.opts.DryRun
    /\ last.merged # last.existing
    /\ Len(last.toSymlink) >= 2
    /\ fs = last.pre

(* C2: when the previous Run was an apply run that returned success, an
   apply run that follows it immediately makes no mutating call and leaves
   the tree as it found it. *)
C2_RepeatedApplyChangesNothing ==
    (Ran /\ last.prevApplied /\ ~last.opts.DryRun)
        => (fs = last.pre /\ last.log = <<>>)

(* C3: in a repository where a recognised agent-config file differs from
   its committed state, a Run without Force returns the gate's error and
   makes no mutating call; a Run with Force is never stopped by the gate. *)
C3_GateBlocksUncommitted ==
    /\ (Ran /\ repo /\ ~last.opts.Force
            /\ \E p \in AllPaths : IsConfigPath(p) /\ last.pre[p] # head[p])
         => (last.outcome = "gate_error" /\ fs = last.pre /\ last.log = <<>>)
    /\ (Ran /\ last.opts.Force) => last.outcome # "gate_error"

(* C4: from a tree without AGENTS.md, after an apply run that returned
   through the symlink loop, AGENTS.md is a readable file containing the
   trimmed content of every symlink-strategy file that was a readable
   regular file, and each of those paths is a symlink that resolves,
   relative to its own directory, to the root AGENTS.md. *)
C4_EndToEndMerge ==
    (last.outcome = "done" /\ ~Exists(last.pre, AGENTS))
        => \A p \in StrategyPaths("symlink") :
              (last.pre[p].kind = "file" /\ last.pre[p].readable)
                 => /\ fs[AGENTS].kind = "file"
                    /\ Canonical(fs).ok
                    /\ Contains(Canonical(fs).content, TrimSpace(last.pre[p].content))
                    /\ fs[p].kind = "symlink"
                    /\ LinkDest(p, fs[p].target) = AGENTS

\* Three symlink-strategy files, two of them nested, with two different
\* contents, all committed.
C4_Witness ==
    /\ last.outcome = "done"
    /\ ~Exists(last.pre, AGENTS)
    /\ repo /\ head = last.pre /\ ~last.opts.Force
    /\ last.pre[CLAUDE] = File(AN)
    /\ last.pre[COPILOT] = File(A)
    /\ last.pre[SUBCLAUDE] = File(B)
    /\ fs[SUBCLAUDE].kind = "symlink"

(* C5: a path that is a symlink to AGENTS.md when a Run starts is not among
   the configs the scan returns, is not in the pending-symlink list, is
   neither removed nor re-created, and is the same entry afterwards. *)
C5_SyncedInert ==
    Ran => \A p \in AllPaths :
              isSymlinkToAgentsMD(last.pre, p)
                 => /\ ~InSeq(p, last.configs)
                    /\ ~InSeq(p, last.toSymlink)
                    /\ ~Did("remove", p) /\ ~Did("symlink", p)
                    /\ fs[p] = last.pre[p]

\* A run that merges and links other files while CLAUDE.md is already a
\* symlink to a readable AGENTS.md.
C5_Witness ==
    /\ last.outcome = "done"
    /\ last.pre[CLAUDE] = Link(AGENTS)
    /\ Canonical(last.pre).ok
    /\ Did("write", AGENTS)
    /\ Did("symlink", SUBCLAUDE)

(* C6: an apply run that starts with a readable, non-empty AGENTS.md leaves
   AGENTS.md readable, with content that either is the prior content or
   begins with the prior content trimmed of surrounding whitespace. *)
C6_CanonicalOnlyExtended ==
    (Ran /\ ~last.opts.DryRun
         /\ Canonical(last.pre).ok /\ Canonical(last.pre).content # <<>>)
        => /\ Canonical(fs).ok
           /\ \/ Canonical(fs).content = Canonical(last.pre).content
              \/ HasPrefix(Canonical(fs).content, TrimSpace(Canonical(last.pre).content))

(* C7: when AGENTS.md exists before a Run (here: as a readable regular
   file with content), the Run does not write it and its content afterwards
   is exactly its content before. *)
C7_ExistingAgentsUntouched ==
    (Ran /\ last.pre[AGENTS].kind = "file" /\ last.pre[AGENTS].readable
         /\ last.pre[AGENTS].content # <<>>)
        => (~Did("write", AGENTS) /\ fs[AGENTS] = last.pre[AGENTS])

(* C8 as stated: for a merge-strategy file whose trimmed content the
   existing, non-empty AGENTS.md already contains, the regenerated content
   holds that text no more often than the existing content did. *)
C8_TextNoMoreOften ==
    \A p \in AllPaths :
        AlreadyIn(p)
           => Occurrences(last.merged, TrimSpace(ReadFile(last.pre, p).content))
                 <= Occurrences(last.existing, TrimSpace(ReadFile(last.pre, p).content))

(* C8 amended: for a merge-strategy file whose trimmed content the existing,
   non-empty AGENTS.md already contains, the run appends no provenance
   header and so no section for that file: the regenerated content holds
   as many headers naming the file as the existing content did. *)
C8_NoSectionForContained ==
    \A p \in AllPaths :
        AlreadyIn(p)
           => Occurrences(last.merged, HeaderOf(p)) = Occurrences(last.existing, HeaderOf(p))

\* CODEX.md is skipped while the rule file, which is new, is appended.
C8_Witness ==
    /\ last.outcome = "done"
    /\ AlreadyIn(CODEX)
    /\ ~AlreadyIn(MDC) /\ InSeq(MDC, last.toMerge)
    /\ Did("write", AGENTS)
    /\ Contains(Canonical(fs).content, HeaderOf(MDC))
    /\ ~Contains(Canonical(fs).content, HeaderOf(CODEX))

(* C9: a symlink createSymlink has made has the bare target AGENTS.md when
   its path is at the project root, and one ".." per directory level
   followed by AGENTS.md when it is nested; resolved against the symlink's
   own directory the target is the root AGENTS.md.  Directories are plain
   directories. *)
C9_SymlinkResolvesToRoot ==
    \A p \in DOMAIN fs :
        Did("symlink", p)
           => /\ fs[p].kind = "symlink"
              /\ fs[p].target = [i \in 1..(Len(p) - 1) |-> ".."] \o << "AGENTS.md" >>
              /\ LinkDest(p, fs[p].target) = AGENTS
              /\ Resolve(fs, p) = AGENTS

\* A file two directory levels deep has been replaced.
C9_Witness ==
    /\ Did("remove", Nested(2)) /\ Did("symlink", Nested(2))
    /\ last.pre[Nested(2)] = File(A)
    /\ fs[Nested(2)] = Link(<< "..", "..", "AGENTS.md" >>)

(* C10: in a repository whose agent-config files are all committed, when an
   apply run without Force has returned success, the run without Force that
   follows it immediately returns through the in-sync path (or finds no
   config file, as the first run did), not with an error. *)
C10_RepeatReportsNothingToDo ==
    [][ ( /\ repo /\ Ran /\ last.outcome \in Success
          /\ ~last.opts.DryRun /\ ~last.opts.Force
          /\ Committed(last.pre)
          /\ ~last'.opts.Force )
        => last'.outcome \in { "in_sync", "none_found" } ]_vars

\* A path some registry pattern matches, that exists, is not a symlink to
\* AGENTS.md, and cannot be read.
ReadFails(tree, p) ==
    /\ \E i \in 1..Len(agentPatterns) :
          \E j \in 1..Len(agentPatterns[i].Patterns) :
             Match(agentPatterns[i].Patterns[j], p)
    /\ Exists(tree, p)
    /\ ~isSymlinkToAgentsMD(tree, p)
    /\ ~ReadFile(tree, p).ok

(* C11: when reading a glob-matched config file that is not already synced,
   or reading an existing AGENTS.md, fails, Run returns an error and makes
   no mutating call. *)
C11_ReadFailureAborts ==
    (Ran /\ \E p \in AllPaths : ReadFails(last.pre, p))
        => (last.outcome \notin Success /\ fs = last.pre /\ last.log = <<>>)

\* The ways this variant's Run returns an error because of the agent.
AgentFailed == { "agent_error", "not_created" }

(* C12: in the agent-delegation variant, when the agent subprocess fails or
   AGENTS.md does not exist after it returns, Run returns an error having
   removed or symlinked nothing: the tree is as the agent left it and every
   original file is still there, a file if it was a file; and
   whenever Run has removed or symlinked a file, the agent had exited
   successfully and os.Stat had not reported AGENTS.md as non-existent. *)
C12_AgentFailureKeepsOriginals ==
    /\ (Ran /\ last.outcome \in AgentFailed)
          => /\ last.log = <<>>
             /\ fs = last.mid
             /\ \A p \in AllPaths :
                   (p # AGENTS /\ Exists(last.pre, p)) => fs[p].kind = last.pre[p].kind
    /\ (Ran /\ last.log # <<>>)
          => /\ last.outcome \in { "done", "symlink_error" }
             /\ Stat(last.mid, AGENTS) # "not_exist"

\* The agent exits successfully but has removed AGENTS.md while two files
\* wait to be replaced.
C12_Witness ==
    /\ last.outcome = "not_created"
    /\ Exists(last.pre, AGENTS)
    /\ ~Exists(last.mid, AGENTS)
    /\ Len(last.toProcess) >= 2
    /\ fs[CLAUDE] = File(AN)

(* C13: in every Run of the deterministic variant, a file is removed or
   symlinked only if it was discovered with strategy symlink; every
   discovered merge-strategy file is afterwards the entry it was before,
   with the same content; and AGENTS.md, the keep-strategy entry, is neither
   removed nor symlinked. *)
C13_OnlySymlinkStrategyReplaced ==
    Ran => /\ \A p \in AllPaths :
                (Did("remove", p) \/ Did("symlink", p))
                   => (p \in StrategyPaths("symlink") /\ InSeq(p, last.configs))
           /\ \A p \in StrategyPaths("merge") :
                InSeq(p, last.configs) => fs[p] = last.pre[p]
           /\ \A p \in StrategyPaths("keep") :
                ~Did("remove", p) /\ ~Did("symlink", p)

\* A path whose name the gate's list recognises: the basename is one of
\* agentFiles, or the path ends in .mdc and lies under .cursor/rules/.
Recognised(p) ==
    \/ Base(p) \in agentFiles
    \/ Base(p) \in MdcNames /\ HasCursorRules(p)

\* A recognised path differs from its committed state.
PendingRecognised(tree) == \E p \in AllPaths : Recognised(p) /\ tree[p] # head[p]

(* C14 as stated: checkGitStatus returns an error only when the tree is
   under version control and a recognised agent-config path has pending
   changes; it never changes the tree. *)
C14_ErrorOnlyForRecognised ==
    /\ (last.outcome = "gate_error") => (repo /\ PendingRecognised(last.pre))
    /\ Ran => fs = last.pre

(* C14 amended: checkGitStatus returns an error only when the tree is under
   version control and either git status itself failed or a recognised
   agent-config path has pending changes; outside version control, and when
   git status succeeds on a tree that is clean or whose pending changes are
   confined to other files, it returns no error; it never changes the
   tree. *)
C14_ErrorOnlyForRecognisedOrGit ==
    /\ (last.outcome = "gate_error")
          => (repo /\ (last.statusFails \/ PendingRecognised(last.pre)))
    /\ (Ran /\ (~repo \/ (~last.statusFails /\ ~PendingRecognised(last.pre))))
          => last.outcome = "gate_ok"
    /\ Ran => (fs = last.pre /\ last.log = <<>>)

\* git status succeeds and reports only main.go: the gate lets the run pass.
C14_Witness ==
    /\ last.outcome = "gate_ok"
    /\ repo /\ ~last.statusFails
    /\ last.pre[MAINGO] # head[MAINGO]
    /\ Exists(last.pre, CLAUDE) /\ last.pre[CLAUDE] = head[CLAUDE]

\* C15: whatever the order in which the registry entries and the glob
\* matches are enumerated, scanConfigs returns its records in strictly
\* ascending path order, no path twice, and therefore the same records and
\* the same merged content as with the order of the source.
C15_ScanOrderDeterministic ==
    last.outcome = "scanned" =>
        /\ \A i \in 1..Len(last.configs) : \A j \in 1..Len(last.configs) :
                i < j => Rank(last.configs[i].Path) < Rank(last.configs[j].Path)
        /\ last.configs = scanConfigs(last.pre)
        /\ last.merged = Plan(last.pre).merged

\* A scan in another enumeration order than the source's that found both
\* rule files of one glob and files of other registry entries.
C15_Witness ==
    /\ last.outcome = "scanned"
    /\ last.agents # agentPatterns
    /\ last.order # PathOrder
    /\ Len(last.configs) >= 4
    /\ { MDC, MDC2 } \subseteq { last.configs[i].Path : i \in 1..Len(last.configs) }

\* The run removed an original file or put a symlink in its place.
Replaced == \E i \in 1..Len(last.log) : last.log[i].op \in { "remove", "symlink" }

\* C16: in apply mode the write of AGENTS.md, made when the content
\* changes, is the first mutating call, so once an original file has been
\* removed or symlinked AGENTS.md holds the merged content; when the write
\* fails Run returns an error and every original file is as it was.
C16_WritePrecedesReplacement ==
    Ran =>
        /\ \A i \in 1..Len(last.log) : last.log[i].op = "write" => i = 1
        /\ Replaced /\ last.merged # last.existing => last.log[1] = Op("write", AGENTS)
        /\ Replaced => ReadFile(fs, AGENTS) = [ok |-> TRUE, content |-> last.merged]
        /\ last.outcome = "write_error" =>
                /\ last.log = <<>>
                /\ \A p \in AllPaths \ { AGENTS } : fs[p] = last.pre[p]

\* The number of pending files the symlink loop finished.
Linked == Cardinality({ i \in 1..Len(last.log) : last.log[i].op = "symlink" })

\* C17: when the removal or the symlink creation of the k-th pending file
\* fails, Run returns the error at once: it makes no further call, the
\* pending files after the k-th are as they were before the run, the files
\* before the k-th are symlinks to AGENTS.md, and AGENTS.md holds the
\* merged content.
C17_StopAtFirstErrorNoRollback ==
    last.outcome = "symlink_error" =>
        /\ last.failAt = Len(last.log) + 1
        /\ \A i \in (Linked + 2)..Len(last.toSymlink) :
                fs[last.toSymlink[i]] = last.pre[last.toSymlink[i]]
        /\ \A i \in 1..Linked :
                fs[last.toSymlink[i]] = Link(SymlinkTarget(last.toSymlink[i]))
        /\ ReadFile(fs, AGENTS) = [ok |-> TRUE, content |-> last.merged]

\* The run started from a tree with nothing left to do: no config file is
\* discovered, or AGENTS.md is non-empty, the assembled content equals it
\* and no symlink is pending.
NothingToDo ==
    /\ Ran
    /\ \E plan \in { Plan(last.pre) } :
          \/ Len(plan.configs) = 0
          \/ /\ plan.existing # <<>>
             /\ plan.merged = plan.existing
             /\ Len(plan.toSymlink) = 0

\* Run wrote AGENTS.md only when the assembled content differs from the
\* existing content.
WritesOnlyChanges ==
    \A i \in 1..Len(last.log) :
        last.log[i].op = "write" => last.merged # last.existing

\* C18 as stated: Run writes AGENTS.md only when the assembled content
\* differs from the existing content, and from a tree with nothing left to
\* do it returns success having made no mutation.
C18_NoOpFastPath ==
    /\ WritesOnlyChanges
    /\ NothingToDo => last.outcome \in Success /\ last.log = <<>> /\ fs = last.pre

\* C18: Run writes AGENTS.md only when the assembled content differs from
\* the existing content; from a tree with nothing left to do it makes no
\* mutation, and it returns success unless the version-control gate, which
\* runs before the scan, has returned its error.
C18_NoOpFastPathPastGate ==
    /\ WritesOnlyChanges
    /\ NothingToDo =>
            /\ last.log = <<>> /\ fs = last.pre
            /\ last.outcome \in Success \cup { "gate_error" }
            /\ last.outcome = "gate_error" => ~last.opts.Force /\ repo

\* An apply run that found a merge-strategy file already contained in a
\* non-empty AGENTS.md and nothing to link.
C18_Witness ==
    /\ NothingToDo
    /\ ~last.opts.DryRun
    /\ last.outcome = "in_sync"
    /\ Len(last.toMerge) >= 1

Built == last.outcome = "built"

\* C19: whatever the existing content, the merge-strategy files and the
\* pending symlink-strategy files, the content buildMergedContent returns
\* is its own whitespace-trimmed form followed by exactly one newline; the
\* template returned when nothing was assembled is of that form too.
C19_OutputNormalForm ==
    /\ Built => last.merged = TrimSpace(last.merged) \o << "\n" >>
    /\ Template = TrimSpace(Template) \o << "\n" >>

\* No existing content and a first part that starts with the blank lines of
\* a provenance header: the joined parts start and end with whitespace.
C19_Witness ==
    /\ Built
    /\ last.existing = <<>>
    /\ Len(last.toMerge) >= 1
    /\ Head(last.toMerge).Content = NAN
    /\ Len(last.toSymlink) >= 1
    /\ last.merged # Template

\* The sections the call appended for a path.
Sections(p) == Occurrences(last.merged, HeaderOf(p)) - Occurrences(last.existing, HeaderOf(p))

\* C20: two merge-strategy files with the same trimmed content produce at
\* most one appended section, the second being skipped because the content
\* accumulated so far already contains it.
C20_DedupAgainstAccumulated ==
    Built =>
        \A i \in 1..Len(last.toMerge) : \A j \in 1..Len(last.toMerge) :
            /\ i < j
            /\ TrimSpace(last.toMerge[i].Content) = TrimSpace(last.toMerge[j].Content)
            => Sections(last.toMerge[i].Path) + Sections(last.toMerge[j].Path) <= 1

\* The section appended for a file: the delimiter and the provenance header
\* naming its path and agent, then its trimmed content.
Section(cfg) == Header(cfg) \o TrimSpace(cfg.Content)

\* buildMergedContent was called with no existing content and pending
\* symlink-strategy files.
Seeded == Built /\ last.existing = <<>> /\ Len(last.toSymlink) > 0

\* C21: with no existing content and pending symlink-strategy files the
\* content starts with the seed made from the first of them, and every
\* merge-strategy file and every other symlink-strategy file with another
\* content follows as a section of its own, delimiter and provenance
\* header included.
C21_SeedFirstSectionsDelimited ==
    Seeded =>
        /\ HasPrefix(last.merged, Seed(last.toSymlink[1]))
        /\ \A i \in 1..Len(last.toMerge) :
                Contains(last.merged, Section(last.toMerge[i]))
        /\ \A i \in 2..Len(last.toSymlink) :
                TrimSpace(last.toSymlink[i].Content) # TrimSpace(last.toSymlink[1].Content)
                    => Contains(last.merged, Section(last.toSymlink[i]))

\* A file the last run removed and replaced by a symlink.
ReplacedBySymlink(p) ==
    /\ InSeq(p, last.toSymlink)
    /\ Did("remove", p)
    /\ Did("symlink", p)

\* C22: after a successful apply run, the trimmed content of every file
\* the run removed and replaced by a symlink is a substring of what
\* AGENTS.md holds, whether or not a non-empty AGENTS.md existed before.
C22_NoContentLost ==
    last.outcome = "done" =>
        \A p \in AllPaths :
            ReplacedBySymlink(p) =>
                /\ Canonical(fs).ok
                /\ Contains(Canonical(fs).content, TrimSpace(ReadFile(last.pre, p).content))

\* AGENTS.md is a symlink to a path that is a symlink back to AGENTS.md.
Cycle(tree) ==
    /\ Exists(tree, AGENTS)
    /\ tree[AGENTS].kind = "symlink"
    /\ \E p \in AllPaths \ { AGENTS } :
          /\ LinkDest(AGENTS, tree[AGENTS].target) = p
          /\ tree[p].kind = "symlink"
          /\ LinkDest(p, tree[p].target) = AGENTS

\* C23: after a successful apply run that started with a readable
\* AGENTS.md, AGENTS.md resolves to a readable regular file that holds the
\* merged content, and no symlink cycle through AGENTS.md has been made.
C23_CanonicalStaysRealFile ==
    (/\ last.outcome \in Success
     /\ ~last.opts.DryRun
     /\ Canonical(last.pre).ok)
        => /\ Canonical(fs).ok
           /\ last.outcome = "done" => Canonical(fs).content = last.merged
           /\ ~Cycle(fs)

\* The paths some registry entry matches.
RegistryPaths == StrategyPaths("symlink") \cup StrategyPaths("merge") \cup StrategyPaths("keep")

\* The last run treated a path as already synced: a symlink that could be
\* read, yet was left out of the scan's result and not linked again.
TreatedAsSynced(p) ==
    /\ Ran /\ last.outcome # "gate_error"
    /\ p \in RegistryPaths
    /\ last.pre[p].kind = "symlink"
    /\ ReadFile(last.pre, p).ok
    /\ ~InSeq(p, last.configs)
    /\ ~Did("symlink", p)

\* C24: a path is treated as already synced only if it is a symlink whose
\* target, resolved against the symlink's own directory, is the AGENTS.md
\* at the project root.
C24_SyncedResolvesToRoot ==
    \A p \in AllPaths :
        TreatedAsSynced(p) => LinkDest(p, last.pre[p].target) = AGENTS

====
